---------------------------- MODULE Spec2Model ----------------------------
(***************************************************************************)
(* A model of the energy-efficient cloud resource optimizer:               *)
(*   - allocate_resources  (src/src/optimizer/resource_allocator.py)       *)
(*   - run_simulation      (src/src/optimizer/simulator.py)                *)
(*   - UsagePredictor      (src/src/optimizer/model.py)                    *)
(*   - run_optimization_pipeline and the module-level CPU_MODEL            *)
(*     (src/app.py)                                                        *)
(*   - the summary step of run_optimization (src/src/app.py)               *)
(*                                                                         *)
(* Units.  The source computes with floats; the model computes with exact  *)
(* integers in fixed units, so that every product and sum of the source is *)
(* an integer here:                                                        *)
(*   usage       percent                                                   *)
(*   cost        1/1000 of a currency unit   (0.05 -> 50)                  *)
(*   power       1/10 W                      (1.5  -> 15 per percent)      *)
(*   energy      1/10000 kWh                 (power / 1000)                *)
(*   round(x, 2) the value in 1/100, rounded half to even as Python does   *)
(***************************************************************************)
EXTENDS Integers, Sequences, FiniteSets, TLC

VARIABLES
    call,                   \* the frame of one allocate_resources call
    df_metrics,             \* run_simulation: the rows of the input table
    predictions,            \* run_simulation: predictions['cpu']
    i,                      \* run_simulation: the loop index (0-based)
    total_original_cost,
    total_optimized_cost,
    total_original_kwh,
    total_optimized_kwh,
    sim_pc,                 \* run_simulation: "idle" | "loop" | "done"
    summary,                \* run_simulation: the returned dict
    intervals,              \* log of the per-interval values of the loop body
    features,               \* UsagePredictor.features (CPU_MODEL's, when shared)
    target,                 \* UsagePredictor.target
    model,                  \* UsagePredictor.model: the estimator's fitted state
    last,                   \* the last train/predict call and how it ended
    history,                \* what the calls so far amount to
    req,                    \* the requests running the pipeline of src/app.py
    results_df,             \* run_optimization: the per-interval results table
    response_data,          \* run_optimization: the summary of the response
    agg_pc,                 \* run_optimization: "aggregate" | "success" | ...
    roll,                   \* create_rolling_features: one column, one window
    run                     \* one request through run_optimization_pipeline

allocVars == <<call>>
simVars   == <<df_metrics, predictions, i, total_original_cost,
               total_optimized_cost, total_original_kwh, total_optimized_kwh,
               sim_pc, summary, intervals>>
predVars  == <<features, target, model, last, history>>
aggVars   == <<results_df, response_data, agg_pc>>
rollVars  == <<roll>>
runVars   == <<run>>
vars      == <<call, df_metrics, predictions, i, total_original_cost,
               total_optimized_cost, total_original_kwh, total_optimized_kwh,
               sim_pc, summary, intervals, features, target, model, last,
               history, req, results_df, response_data, agg_pc, roll, run>>

-----------------------------------------------------------------------------
(* allocate_resources                                                      *)

\* The default thresholds of the signature.
DEFAULT_SCALE_UP_THRESHOLD == 75
DEFAULT_SCALE_DOWN_THRESHOLD == 30

\* Usage values on and around both defaults.
UsageGrid == {0, 29, 30, 31, 50, 74, 75, 76, 100}

\* Threshold pairs a caller can pass: the defaults, and overrides, among
\* them pairs with scale_down_threshold above scale_up_threshold.
ThresholdGrid == {30, 50, 75}

\* A variant with the boundary included in the scale-up branch.
AllocateScaleUpInclusive(current_usage, predicted_usage, scale_up_threshold, scale_down_threshold) ==
    IF predicted_usage >= scale_up_threshold THEN "SCALE_UP"
    ELSE IF predicted_usage < scale_down_threshold
            /\ current_usage < scale_down_threshold THEN "SCALE_DOWN"
    ELSE "MAINTAIN"

\* A variant that decides scale-down on the prediction alone.
AllocatePredictedOnly(current_usage, predicted_usage, scale_up_threshold, scale_down_threshold) ==
    IF predicted_usage > scale_up_threshold THEN "SCALE_UP"
    ELSE IF predicted_usage < scale_down_threshold THEN "SCALE_DOWN"
    ELSE "MAINTAIN"

\* A variant without the scale-down branch.
AllocateNoScaleDown(current_usage, predicted_usage, scale_up_threshold, scale_down_threshold) ==
    IF predicted_usage > scale_up_threshold THEN "SCALE_UP"
    ELSE "MAINTAIN"

\* The 'action' of the dict allocate_resources returns.
allocate_resources(current_usage, predicted_usage, scale_up_threshold, scale_down_threshold) ==
    IF predicted_usage > scale_up_threshold THEN "SCALE_UP"
    ELSE IF predicted_usage < scale_down_threshold
            /\ current_usage < scale_down_threshold THEN "SCALE_DOWN"
    ELSE "MAINTAIN"

NoCall == [current_usage |-> 0, predicted_usage |-> 0,
           scale_up_threshold |-> DEFAULT_SCALE_UP_THRESHOLD,
           scale_down_threshold |-> DEFAULT_SCALE_DOWN_THRESHOLD,
           action |-> "none"]

\* A call entered with its arguments bound, nothing returned yet.
CallFrames ==
    [current_usage : UsageGrid, predicted_usage : UsageGrid,
     scale_up_threshold : ThresholdGrid, scale_down_threshold : ThresholdGrid,
     action : {"none"}]

\* The body of allocate_resources up to its return.
Allocate ==
    /\ call.action = "none"
    /\ call' = [call EXCEPT !.action =
                    allocate_resources(call.current_usage, call.predicted_usage,
                                       call.scale_up_threshold,
                                       call.scale_down_threshold)]
    /\ UNCHANGED <<simVars, aggVars, rollVars, predVars, req, runVars>>


-----------------------------------------------------------------------------
(* run_simulation                                                          *)

COST_CPU_PER_HOUR == 50
COST_GPU_PER_HOUR == 500
POWER_CPU_WATT_PER_PERCENT == 15
POWER_GPU_WATT_PER_PERCENT == 30

\* The longest input table of the simulation runs.
MaxIntervals == 3

UsageVals == {0, 20, 80}
GpuVals   == {0, 10}
PredVals  == {20, 50, 80}

Rows == [cpu_usage : UsageVals, gpu_usage : GpuVals]

\* Python's round(num / den, 0) for den > 0: to the nearest integer, a tie
\* to the even one.  (\div and % are floor division and its remainder.)
RoundHalfEven(num, den) ==
    LET q == num \div den
        r == num % den
    IN  IF 2 * r < den THEN q
        ELSE IF 2 * r > den THEN q + 1
        ELSE IF q % 2 = 0 THEN q ELSE q + 1

\* round(cost, 2): a cost (1/1000) in 1/100.
RoundCost(cost) == RoundHalfEven(cost, 10)

\* round(kwh, 2): an energy (1/10000 kWh) in 1/100 kWh.
RoundKwh(kwh) == RoundHalfEven(kwh, 100)

\* Line 45: the original plan is billed at full capacity in every interval.
OriginalCostInterval(current_cpu, current_gpu) ==
    COST_CPU_PER_HOUR + COST_GPU_PER_HOUR

\* Line 46.
OriginalPowerInterval(current_cpu, current_gpu) ==
    (POWER_CPU_WATT_PER_PERCENT * current_cpu) + (POWER_GPU_WATT_PER_PERCENT * current_gpu)

\* Lines 59-64, cost: halved on SCALE_DOWN, the original otherwise.
OptimizedCostInterval(cpu_action, original_cost_interval) ==
    IF cpu_action = "SCALE_DOWN" THEN (original_cost_interval * 5) \div 10
    ELSE original_cost_interval

\* Lines 59-64, power: 0.6 of the original on SCALE_DOWN.
OptimizedPowerInterval(cpu_action, original_power_interval) ==
    IF cpu_action = "SCALE_DOWN" THEN (original_power_interval * 6) \div 10
    ELSE original_power_interval

\* A variant that rounds each interval's amount to 2 decimals before adding.
AccumulateRounded(total, amount) == total + 10 * RoundCost(amount)

\* Lines 48 and 66: total += amount.
Accumulate(total, amount) == total + amount

\* Line 55: the call the simulator makes, with the default thresholds.
CpuAction(current_cpu, pred_cpu) ==
    allocate_resources(current_cpu, pred_cpu,
                       DEFAULT_SCALE_UP_THRESHOLD, DEFAULT_SCALE_DOWN_THRESHOLD)

\* A variant that divides whatever the total is.
PercentDividesAlways(total) == TRUE

\* Line 78: the condition under which the quotient is evaluated.
PercentDivides(total) == total > 0

NoSummary == [total_intervals |-> -1, original_cost |-> 0, optimized_cost |-> 0,
              cost_savings |-> 0, cost_savings_percent |-> 0,
              energy_saved_kwh |-> 0]

\* The state of run_simulation before the loop (lines 32-37).
SimEntered(df, preds) ==
    /\ df_metrics = df
    /\ predictions = preds
    /\ i = 0
    /\ total_original_cost = 0
    /\ total_optimized_cost = 0
    /\ total_original_kwh = 0
    /\ total_optimized_kwh = 0
    /\ sim_pc = "loop"
    /\ summary = NoSummary
    /\ intervals = <<>>

\* No simulation in progress.
SimIdle ==
    /\ df_metrics = <<>>
    /\ predictions = <<>>
    /\ i = 0
    /\ total_original_cost = 0
    /\ total_optimized_cost = 0
    /\ total_original_kwh = 0
    /\ total_optimized_kwh = 0
    /\ sim_pc = "idle"
    /\ summary = NoSummary
    /\ intervals = <<>>

\* One iteration of the loop (lines 39-67), for row i.
SimStep ==
    /\ sim_pc = "loop"
    /\ i < Len(df_metrics)
    /\ LET current_cpu == df_metrics[i + 1].cpu_usage
           current_gpu == df_metrics[i + 1].gpu_usage
           original_cost_interval == OriginalCostInterval(current_cpu, current_gpu)
           original_power_interval == OriginalPowerInterval(current_cpu, current_gpu)
           pred_cpu == predictions[i + 1]
           cpu_action == CpuAction(current_cpu, pred_cpu)
           optimized_cost_interval == OptimizedCostInterval(cpu_action, original_cost_interval)
           optimized_power_interval == OptimizedPowerInterval(cpu_action, original_power_interval)
       IN  /\ total_original_cost' = Accumulate(total_original_cost, original_cost_interval)
           /\ total_original_kwh' = total_original_kwh + original_power_interval
           /\ total_optimized_cost' = Accumulate(total_optimized_cost, optimized_cost_interval)
           /\ total_optimized_kwh' = total_optimized_kwh + optimized_power_interval
           /\ intervals' = Append(intervals,
                  [cpu_usage |-> current_cpu, gpu_usage |-> current_gpu,
                   pred_cpu |-> pred_cpu, action |-> cpu_action,
                   original_cost |-> original_cost_interval,
                   optimized_cost |-> optimized_cost_interval,
                   original_power |-> original_power_interval,
                   optimized_power |-> optimized_power_interval])
    /\ i' = i + 1
    /\ UNCHANGED <<df_metrics, predictions, sim_pc, summary>>
    /\ UNCHANGED <<allocVars, aggVars, rollVars, predVars, req, runVars>>

\* After the loop: the summary (lines 69-80).  The quotient of line 78
\* raises ZeroDivisionError when it is evaluated with a zero total.
SimFinish ==
    /\ sim_pc = "loop"
    /\ i = Len(df_metrics)
    /\ LET cost_saved == total_original_cost - total_optimized_cost
           energy_saved_kwh == total_original_kwh - total_optimized_kwh
       IN  IF PercentDivides(total_original_cost) /\ total_original_cost = 0
           THEN /\ sim_pc' = "ZeroDivisionError"
                /\ summary' = summary
           ELSE /\ sim_pc' = "done"
                /\ summary' =
                     [total_intervals |-> Len(df_metrics),
                      original_cost |-> RoundCost(total_original_cost),
                      optimized_cost |-> RoundCost(total_optimized_cost),
                      cost_savings |-> RoundCost(cost_saved),
                      cost_savings_percent |->
                          IF PercentDivides(total_original_cost)
                          THEN RoundHalfEven(cost_saved * 10000, total_original_cost)
                          ELSE 0,
                      energy_saved_kwh |-> RoundKwh(energy_saved_kwh)]
    /\ UNCHANGED <<df_metrics, predictions, i, total_original_cost,
                   total_optimized_cost, total_original_kwh,
                   total_optimized_kwh, intervals>>
    /\ UNCHANGED <<allocVars, aggVars, rollVars, predVars, req, runVars>>

-----------------------------------------------------------------------------
(* run_optimization of src/src/app.py: the summary of the results table    *)

\* The rows simulate_costs hands to the aggregation: per interval an
\* original cost, an optimized cost, their difference and an energy saved.
ResultRows ==
    {[original_cost |-> o, optimized_cost |-> p, cost_saved |-> o - p,
      energy_saved_kwh |-> e] : o \in {0, 25, 40}, p \in {0, 15}, e \in {0, 45}}

RECURSIVE ColumnSum(_, _)
\* results_df[column].sum(); 0 for a table of zero rows.
ColumnSum(df, column) ==
    IF df = <<>> THEN 0 ELSE df[1][column] + ColumnSum(Tail(df), column)

\* Line 101: the condition under which the quotient is evaluated.
ResponsePercentDivides(total) == total > 0

\* The state of run_optimization when simulate_costs has returned (line 88).
Simulated(df) ==
    /\ results_df = df
    /\ response_data = NoSummary
    /\ agg_pc = "aggregate"

\* No aggregation in progress.
AggIdle ==
    /\ results_df = <<>>
    /\ response_data = NoSummary
    /\ agg_pc = "idle"

\* Lines 91-105: the totals, the summary and the success response.
Aggregate ==
    /\ agg_pc = "aggregate"
    /\ LET total_original_cost_ == ColumnSum(results_df, "original_cost")
           total_optimized_cost_ == ColumnSum(results_df, "optimized_cost")
           total_cost_savings == ColumnSum(results_df, "cost_saved")
           total_energy_saved == ColumnSum(results_df, "energy_saved_kwh")
       IN  IF ResponsePercentDivides(total_original_cost_) /\ total_original_cost_ = 0
           THEN /\ agg_pc' = "ZeroDivisionError"
                /\ response_data' = response_data
           ELSE /\ agg_pc' = "success"
                /\ response_data' =
                     [total_intervals |-> Len(results_df),
                      original_cost |-> RoundCost(total_original_cost_),
                      optimized_cost |-> RoundCost(total_optimized_cost_),
                      cost_savings |-> RoundCost(total_cost_savings),
                      cost_savings_percent |->
                          IF ResponsePercentDivides(total_original_cost_)
                          THEN RoundHalfEven(total_cost_savings * 10000, total_original_cost_)
                          ELSE 0,
                      energy_saved_kwh |-> RoundKwh(total_energy_saved)]
    /\ UNCHANGED <<results_df>>
    /\ UNCHANGED <<allocVars, simVars, rollVars, predVars, req, runVars>>

-----------------------------------------------------------------------------
(* create_rolling_features                                                 *)

\* The longest source column and the widest window.
MaxSeriesLen == 4
MaxWindow == 3

SeriesVals == {0, 10, 25}

\* A cell of the feature column: the mean num / den, or NaN (not defined).
NaN == [defined |-> FALSE, num |-> 0, den |-> 1]
Mean(sum, nobs) == [defined |-> TRUE, num |-> sum, den |-> nobs]

\* A variant with pandas' default, min_periods = window.
MinPeriodsIsWindow(window) == window

\* Line 43: min_periods=1.
MinPeriods(window) == 1

\* The loop of lines 37-44 at one column and one window: `present` is
\* `col in df.columns`, src the column, out the feature column so far,
\* sum and nobs the running sum and count of the window.
RollEntered(present, src, window) ==
    roll = [present |-> present, src |-> src, window |-> window, k |-> 0,
            sum |-> 0, nobs |-> 0, out |-> <<>>, pc |-> "column"]

RollIdle ==
    roll = [present |-> FALSE, src |-> <<>>, window |-> 1, k |-> 0,
            sum |-> 0, nobs |-> 0, out |-> <<>>, pc |-> "idle"]

\* Lines 38-40: a column that is not in the table is skipped with a warning.
RollColumn ==
    /\ roll.pc = "column"
    /\ roll' = [roll EXCEPT !.pc = IF roll.present THEN "rolling" ELSE "skipped"]
    /\ UNCHANGED <<allocVars, simVars, aggVars, predVars, req, runVars>>

\* Line 43, df[col].rolling(window, min_periods).mean() at row k: the
\* value of the row enters the window, the value that is `window` rows
\* back leaves it, and the cell is sum / nobs once nobs >= min_periods.
RollStep ==
    /\ roll.pc = "rolling"
    /\ roll.k < Len(roll.src)
    /\ LET row == roll.k + 1
           leaves == row > roll.window
           sum == roll.sum + roll.src[row]
                    - (IF leaves THEN roll.src[row - roll.window] ELSE 0)
           nobs == roll.nobs + 1 - (IF leaves THEN 1 ELSE 0)
       IN  roll' = [roll EXCEPT !.k = row, !.sum = sum, !.nobs = nobs,
                       !.out = Append(@, IF nobs >= MinPeriods(roll.window)
                                         THEN Mean(sum, nobs) ELSE NaN)]
    /\ UNCHANGED <<allocVars, simVars, aggVars, predVars, req, runVars>>

\* Line 43: the feature column is assigned to df[feature_name].
RollFinish ==
    /\ roll.pc = "rolling"
    /\ roll.k = Len(roll.src)
    /\ roll' = [roll EXCEPT !.pc = "created"]
    /\ UNCHANGED <<allocVars, simVars, aggVars, predVars, req, runVars>>

-----------------------------------------------------------------------------
(* UsagePredictor                                                          *)

\* A feature list is modelled by the set of its column names; a DataFrame
\* by its column names and its number of rows.
FullColumns      == {"hour", "rolling_mean", "cpu_usage", "gpu_usage"}
NoRollingColumns == {"hour", "cpu_usage", "gpu_usage"}
NoGpuColumns     == {"hour", "rolling_mean", "cpu_usage"}

\* The row counts of the tables: one too short to split, and a longer one.
RowCounts == {1, 5}

Frames == [columns : {FullColumns, NoRollingColumns, NoGpuColumns},
           rows : RowCounts]

FeatureLists == {{}, {"hour"}, {"hour", "rolling_mean"}}
Targets == {"cpu_usage", "gpu_usage"}

\* The number of train and predict calls of one run.
MaxCalls == 4

\* RandomForestRegressor(**model_params), nothing fitted (line 24).
Unfitted == [state |-> "unfitted", features |-> {}, target |-> "", by |-> 0]

\* The estimator after fit(X_train, y_train) returned, for the train call `by`.
Fitted(fs, tgt, by) == [state |-> "fitted", features |-> fs, target |-> tgt, by |-> by]

\* train_test_split(X, y, test_size=0.2): the size of the train part; the
\* test part is ceil(0.2 * n) rows.
TrainRows(n) == n - ((n + 4) \div 5)

\* How train(df, features, target) ends: the exception of the first
\* statement that raises, or "ok".  X = df[features] (line 41) and
\* y = df[target] (line 42) raise KeyError on an absent column; the split
\* (line 45) raises ValueError when the train part is empty; fit (line 48)
\* raises ValueError on a table of zero feature columns.
TrainResult(df, fs, tgt) ==
    IF ~(fs \subseteq df.columns) THEN "KeyError"
    ELSE IF tgt \notin df.columns THEN "KeyError"
    ELSE IF TrainRows(df.rows) = 0 THEN "ValueError"
    ELSE IF fs = {} THEN "ValueError"
    ELSE "ok"

\* A variant of line 38 that keeps the old list.
KeepFeatures(old, new) == old

\* Line 38: self.features = features.
AssignFeatures(old, new) == new

\* Line 65: `not self.features`.
NotTrained(fs) == fs = {}

\* How predict(df) ends.  Line 66 raises the RuntimeError 'Model has not
\* been trained yet'; df[self.features] (line 70) raises KeyError on an
\* absent column; model.predict (line 71) raises NotFittedError on an
\* estimator that was never fitted and ValueError on columns other than
\* those it was fitted on.
PredictResult(df, fs, m) ==
    IF NotTrained(fs) THEN "RuntimeError"
    ELSE IF ~(fs \subseteq df.columns) THEN "KeyError"
    ELSE IF m.state = "unfitted" THEN "NotFittedError"
    ELSE IF m.features # fs THEN "ValueError"
    ELSE "ok"

NoFrame == [columns |-> {}, rows |-> 0]
NoLast == [op |-> "none", result |-> "none", df |-> NoFrame]
\* What the calls so far amount to: how many, how the last train ended and
\* on which table, per target the estimator its last completed train
\* fitted (own), and the predictor as the last train call found it (prev).
NoHistory == [calls |-> 0, trains |-> 0, last_train |-> "none",
              train_df |-> NoFrame, empty_list_train |-> FALSE,
              own |-> [t \in Targets |-> Unfitted],
              prev |-> [features |-> {}, target |-> "", model |-> Unfitted]]

\* UsagePredictor() (lines 21-26).
PredictorConstructed ==
    /\ features = {}
    /\ target = ""
    /\ model = Unfitted
    /\ last = NoLast
    /\ history = NoHistory

\* One whole call of train (lines 38-53) on a predictor no other thread uses.
Train(df, fs, tgt) ==
    /\ history.calls < MaxCalls
    /\ LET result == TrainResult(df, fs, tgt)
       IN  /\ features' = AssignFeatures(features, fs)
           /\ target' = tgt
           /\ model' = IF result = "ok" THEN Fitted(fs, tgt, history.trains + 1)
                       ELSE model
           /\ last' = [op |-> "train", result |-> result, df |-> df]
           /\ history' = [calls |-> history.calls + 1,
                          trains |-> history.trains + 1,
                          last_train |-> IF result = "ok" THEN "ok" ELSE "failed",
                          train_df |-> df,
                          empty_list_train |-> history.empty_list_train \/ fs = {},
                          own |-> IF result = "ok"
                                  THEN [history.own EXCEPT
                                           ![tgt] = Fitted(fs, tgt, history.trains + 1)]
                                  ELSE history.own,
                          prev |-> [features |-> features, target |-> target,
                                    model |-> model]]
    /\ UNCHANGED <<allocVars, aggVars, rollVars, simVars, req, runVars>>

\* One whole call of predict (lines 65-71).
Predict(df) ==
    /\ history.calls < MaxCalls
    /\ last' = [op |-> "predict", result |-> PredictResult(df, features, model),
                df |-> df]
    /\ history' = [history EXCEPT !.calls = @ + 1]
    /\ UNCHANGED <<features, target, model>>
    /\ UNCHANGED <<allocVars, aggVars, rollVars, simVars, req, runVars>>

-----------------------------------------------------------------------------
(* The pipeline of src/app.py on the module-level CPU_MODEL                *)

\* The requests in flight at once.
NumRequests == 2
Requests == 1 .. NumRequests

\* Lines 66-67 of src/app.py (two of the four features, by name).
PipelineFeatures == {"hour", "rolling_mean"}
PipelineTarget == "cpu_usage"

NoRequest == [pc |-> "idle", obs |-> "none"]

ReqIdle == req = [r \in Requests |-> NoRequest]

\* Another request is inside fit on the shared estimator.
RefitInProgress(r) == \E r2 \in Requests \ {r} : req[r2].pc = "fitting"

\* Lines 56-61: load the file and build the features; the file may be absent.
Load(r) ==
    /\ req[r].pc = "idle"
    /\ \E found \in BOOLEAN :
         req' = [req EXCEPT ![r].pc = IF found THEN "train" ELSE "error_404"]
    /\ UNCHANGED <<allocVars, aggVars, rollVars, simVars, runVars, predVars>>

\* CPU_MODEL.train, lines 38-39 of model.py: the attributes are assigned.
TrainAssign(r) ==
    /\ req[r].pc = "train"
    /\ features' = AssignFeatures(features, PipelineFeatures)
    /\ target' = PipelineTarget
    /\ req' = [req EXCEPT ![r].pc = "fit"]
    /\ UNCHANGED <<allocVars, aggVars, rollVars, simVars, runVars, model, last, history>>

\* CPU_MODEL.train, line 48: fit starts rebuilding the estimator.
FitBegin(r) ==
    /\ req[r].pc = "fit"
    /\ model' = [model EXCEPT !.state = "fitting", !.by = r]
    /\ req' = [req EXCEPT ![r].pc = "fitting"]
    /\ UNCHANGED <<allocVars, aggVars, rollVars, simVars, runVars, features, target, last, history>>

\* CPU_MODEL.train, lines 48-53: fit returns, the evaluation is printed.
FitEnd(r) ==
    /\ req[r].pc = "fitting"
    /\ model' = Fitted(features, target, r)
    /\ req' = [req EXCEPT ![r].pc = "predict"]
    /\ UNCHANGED <<allocVars, aggVars, rollVars, simVars, runVars, features, target, last, history>>

\* CPU_MODEL.predict, lines 65-66 of model.py.
PredictCheck(r) ==
    /\ req[r].pc = "predict"
    /\ req' = [req EXCEPT ![r].pc = IF NotTrained(features) THEN "error_500"
                                    ELSE "predict_model"]
    /\ UNCHANGED <<allocVars, aggVars, rollVars, simVars, runVars, predVars>>

\* CPU_MODEL.predict, lines 70-71: the estimator is read as it is now.
PredictModel(r) ==
    /\ req[r].pc = "predict_model"
    /\ req' = [req EXCEPT ![r].pc = "simulate",
                          ![r].obs = IF RefitInProgress(r) THEN "refitting"
                                     ELSE IF model.by = r THEN "own" ELSE "other"]
    /\ UNCHANGED <<allocVars, aggVars, rollVars, simVars, runVars, predVars>>

\* Lines 79-85 and 107-110 of src/app.py: simulate and answer.
Respond(r) ==
    /\ req[r].pc = "simulate"
    /\ req' = [req EXCEPT ![r].pc = "success"]
    /\ UNCHANGED <<allocVars, aggVars, rollVars, simVars, runVars, predVars>>

-----------------------------------------------------------------------------
(* One request through run_optimization_pipeline, stage by stage           *)

\* The requests served one after the other on the one CPU_MODEL.
MaxRuns == 2

\* What the file at METRICS_FILEPATH is: there or not, its timestamp column
\* absent, text or dates, the usage columns it has, its number of rows.
FileAbsent == [found |-> FALSE, timestamp |-> "absent", usage |-> {}, rows |-> 0]

Inputs ==
    {FileAbsent} \cup
    [found : {TRUE}, timestamp : {"absent", "text", "datetime"},
     usage : SUBSET {"cpu_usage", "gpu_usage"}, rows : RowCounts]

\* The stages of run_optimization_pipeline in program order (lines 56-83);
\* allocate_resources is called from inside run_simulation.
AllStages == <<"load", "time_features", "rolling_features", "train",
               "predict", "gpu_predictions", "simulate">>

NoExc == [type |-> "none", at |-> "none", message |-> ""]
NoResponse == [status |-> "none", code |-> 0, message |-> "", data |-> FALSE]

\* A variant of load_metrics_data whose handler of FileNotFoundError
\* returns instead of raising.
LoadSwallowsNotFound(input) ==
    IF input.found /\ input.timestamp = "absent" THEN "ValueError" ELSE "ok"

\* How load_metrics_data(METRICS_FILEPATH, parse_dates=['timestamp']) ends:
\* read_csv (line 21) raises FileNotFoundError on an absent file and
\* ValueError on a parse_dates column the file does not have; both handlers
\* re-raise (lines 33-38).
LoadResult(input) ==
    IF ~input.found THEN "FileNotFoundError"
    ELSE IF input.timestamp = "absent" THEN "ValueError"
    ELSE "ok"

\* The table load_metrics_data returns (lines 21-30).
LoadedFrame(input) ==
    [columns |-> (IF input.timestamp = "absent" THEN {} ELSE {"timestamp"})
                     \cup input.usage,
     rows |-> input.rows]

\* create_time_features, lines 14-15.
TimeFeaturesResult(df, is_datetime) ==
    IF "timestamp" \notin df.columns \/ ~is_datetime THEN "ValueError" ELSE "ok"

\* create_time_features, lines 17-20 (hour stands for the four columns).
TimeFeatures(df) == [df EXCEPT !.columns = @ \cup {"hour"}]

\* The columns argument of line 60 of src/app.py.
RollingColumns == {"cpu_usage", "gpu_usage"}

\* Line 42 of feature_engineer.py: the name of the feature column
\* (rolling_mean stands for the two windows of cpu_usage).
RollingFeatureOf(col) ==
    IF col = "cpu_usage" THEN "rolling_mean" ELSE "gpu_usage_rolling_mean"

\* Lines 38-40: the columns skipped with a warning.
SkippedColumns(df) == RollingColumns \ df.columns

\* create_rolling_features, lines 37-46.
RollingFeatures(df) ==
    [df EXCEPT !.columns =
        @ \cup {RollingFeatureOf(col) : col \in RollingColumns \cap df.columns}]

\* Line 74 of src/app.py: df['gpu_usage'].
GpuPredictionsResult(df) ==
    IF "gpu_usage" \notin df.columns THEN "KeyError" ELSE "ok"

\* run_simulation, lines 41-42: df_metrics['cpu_usage'], ['gpu_usage'].
SimulateResult(df) ==
    IF ~({"cpu_usage", "gpu_usage"} \subseteq df.columns) THEN "KeyError" ELSE "ok"

\* str(e) of the exceptions of the pipeline.
MessageOf(type, stage) ==
    IF stage = "time_features" THEN "Column 'timestamp' must be a datetime type."
    ELSE IF type = "KeyError" THEN "column not in index"
    ELSE IF type = "FileNotFoundError" THEN "No such file or directory"
    ELSE IF type = "RuntimeError" THEN "Model has not been trained yet. Call train() first."
    ELSE "message of the library"

\* Line 114 of src/app.py.
NotFoundMessage == "Data file not found at data/sample_metrics.csv. Please ensure the data exists."

RunIdle ==
    run = [n |-> 0, pc |-> "idle", input |-> FileAbsent, df |-> NoFrame,
           stages |-> <<>>, skipped |-> {}, exc |-> NoExc,
           response |-> NoResponse]

\* A stage returns: the next statement of run_optimization_pipeline runs.
Pass(stage, next, df) ==
    run' = [run EXCEPT !.pc = next, !.stages = Append(@, stage), !.df = df]

\* A stage raises: nothing in run_optimization_pipeline catches, control
\* is in the except clauses of api_run_optimization (lines 111-122).
Raise(stage, type) ==
    run' = [run EXCEPT !.pc = "except", !.stages = Append(@, stage),
                       !.exc = [type |-> type, at |-> stage,
                                message |-> MessageOf(type, stage)]]

\* End(stage, result, next, df): the stage ended with result.
End(stage, result, next, df) ==
    IF result = "ok" THEN Pass(stage, next, df) ELSE Raise(stage, result)

\* POST /api/run-optimization arrives (line 106).
RunBegin ==
    /\ run.pc \in {"idle", "responded"}
    /\ run.n < MaxRuns
    /\ \E input \in Inputs :
         run' = [n |-> run.n + 1, pc |-> "load", input |-> input,
                 df |-> NoFrame, stages |-> <<>>, skipped |-> {},
                 exc |-> NoExc, response |-> NoResponse]
    /\ UNCHANGED <<allocVars, aggVars, rollVars, simVars, predVars, req>>

\* Line 56.
RunLoad ==
    /\ run.pc = "load"
    /\ End("load", LoadResult(run.input), "time_features", LoadedFrame(run.input))
    /\ UNCHANGED <<allocVars, aggVars, rollVars, simVars, predVars, req>>

\* Line 59.
RunTimeFeatures ==
    /\ run.pc = "time_features"
    /\ End("time_features",
           TimeFeaturesResult(run.df, run.input.timestamp = "datetime"),
           "rolling_features", TimeFeatures(run.df))
    /\ UNCHANGED <<allocVars, aggVars, rollVars, simVars, predVars, req>>

\* Lines 60-61: an absent column is skipped with a warning, the stage
\* returns; dropna finds no NaN after ffill and min_periods=1.
RunRollingFeatures ==
    /\ run.pc = "rolling_features"
    /\ run' = [run EXCEPT !.pc = "train",
                          !.stages = Append(@, "rolling_features"),
                          !.skipped = SkippedColumns(run.df),
                          !.df = RollingFeatures(run.df)]
    /\ UNCHANGED <<allocVars, aggVars, rollVars, simVars, predVars, req>>

\* Line 68: CPU_MODEL.train(df, features, target).
RunTrain ==
    /\ run.pc = "train"
    /\ LET result == TrainResult(run.df, PipelineFeatures, PipelineTarget)
       IN  /\ features' = AssignFeatures(features, PipelineFeatures)
           /\ target' = PipelineTarget
           /\ model' = IF result = "ok"
                       THEN Fitted(PipelineFeatures, PipelineTarget, run.n)
                       ELSE model
           /\ End("train", result, "predict", run.df)
    /\ UNCHANGED <<allocVars, aggVars, rollVars, simVars, last, history, req>>

\* Line 71: CPU_MODEL.predict(df).
RunPredict ==
    /\ run.pc = "predict"
    /\ End("predict", PredictResult(run.df, features, model),
           "gpu_predictions", run.df)
    /\ UNCHANGED <<allocVars, aggVars, rollVars, simVars, predVars, req>>

\* Line 74.
RunGpuPredictions ==
    /\ run.pc = "gpu_predictions"
    /\ End("gpu_predictions", GpuPredictionsResult(run.df), "simulate", run.df)
    /\ UNCHANGED <<allocVars, aggVars, rollVars, simVars, predVars, req>>

\* Lines 79-85: run_simulation with allocate_resources.
RunSimulate ==
    /\ run.pc = "simulate"
    /\ End("simulate", SimulateResult(run.df), "return", run.df)
    /\ UNCHANGED <<allocVars, aggVars, rollVars, simVars, predVars, req>>

\* Lines 107-110: the success response with the summary.
RunSucceed ==
    /\ run.pc = "return"
    /\ run' = [run EXCEPT !.pc = "responded",
                          !.response = [status |-> "success", code |-> 200,
                                        message |-> "", data |-> TRUE]]
    /\ UNCHANGED <<allocVars, aggVars, rollVars, simVars, predVars, req>>

\* Lines 111-122: 404 for FileNotFoundError, 500 with str(e) otherwise.
RunHandle ==
    /\ run.pc = "except"
    /\ run' = [run EXCEPT
                 !.pc = "responded",
                 !.response =
                    IF run.exc.type = "FileNotFoundError"
                    THEN [status |-> "error", code |-> 404,
                          message |-> NotFoundMessage, data |-> FALSE]
                    ELSE [status |-> "error", code |-> 500,
                          message |-> run.exc.message, data |-> FALSE]]
    /\ UNCHANGED <<allocVars, aggVars, rollVars, simVars, predVars, req>>

-----------------------------------------------------------------------------
(* Specifications                                                          *)

\* allocate_resources on every argument tuple of the grids.
InitAlloc ==
    /\ call \in CallFrames
    /\ SimIdle
    /\ AggIdle
    /\ RollIdle
    /\ PredictorConstructed
    /\ ReqIdle
    /\ RunIdle

NextAlloc == Allocate

SpecAlloc == InitAlloc /\ [][NextAlloc]_vars

\* run_simulation on every table of at most MaxIntervals rows.
InitSim ==
    /\ call = NoCall
    /\ \E n \in 0 .. MaxIntervals :
         \E df \in [1 .. n -> Rows], preds \in [1 .. n -> PredVals] :
           SimEntered(df, preds)
    /\ AggIdle
    /\ RollIdle
    /\ PredictorConstructed
    /\ ReqIdle
    /\ RunIdle

NextSim ==
    \/ SimStep
    \/ SimFinish

SpecSim == InitSim /\ [][NextSim]_vars

\* The aggregation of run_optimization on every results table of at most
\* MaxIntervals rows.
InitAggregate ==
    /\ call = NoCall
    /\ SimIdle
    /\ \E n \in 0 .. MaxIntervals : \E df \in [1 .. n -> ResultRows] : Simulated(df)
    /\ RollIdle
    /\ PredictorConstructed
    /\ ReqIdle
    /\ RunIdle

\* Both summaries: the one run_simulation returns and the one
\* run_optimization builds.
InitSummaries ==
    \/ InitSim
    \/ InitAggregate

NextSummaries ==
    \/ SimStep
    \/ SimFinish
    \/ Aggregate

SpecSummaries == InitSummaries /\ [][NextSummaries]_vars

\* Scenario A of the testable properties: six samples, the predictions
\* equal to the observed values; gpu_usage is free.
ScenarioA == <<25, 22, 28, 70, 80, 25>>

InitScenarioA ==
    /\ call = NoCall
    /\ \E gpu \in [1 .. Len(ScenarioA) -> GpuVals] :
         SimEntered([k \in 1 .. Len(ScenarioA) |->
                        [cpu_usage |-> ScenarioA[k], gpu_usage |-> gpu[k]]],
                    ScenarioA)
    /\ AggIdle
    /\ RollIdle
    /\ PredictorConstructed
    /\ ReqIdle
    /\ RunIdle

SpecScenarioA == InitScenarioA /\ [][NextSim]_vars

\* Any sequence of train and predict calls on one UsagePredictor.
InitPredictor ==
    /\ call = NoCall
    /\ SimIdle
    /\ AggIdle
    /\ RollIdle
    /\ PredictorConstructed
    /\ ReqIdle
    /\ RunIdle

NextPredictor ==
    \/ \E df \in Frames, fs \in FeatureLists, tgt \in Targets : Train(df, fs, tgt)
    \/ \E df \in Frames : Predict(df)

SpecPredictor == InitPredictor /\ [][NextPredictor]_vars

\* NumRequests requests of POST /api/run-optimization, their steps
\* interleaved, on the one CPU_MODEL of the module.
InitPipeline ==
    /\ call = NoCall
    /\ SimIdle
    /\ AggIdle
    /\ RollIdle
    /\ PredictorConstructed
    /\ ReqIdle
    /\ RunIdle

NextPipeline ==
    \E r \in Requests :
        \/ Load(r)
        \/ TrainAssign(r)
        \/ FitBegin(r)
        \/ FitEnd(r)
        \/ PredictCheck(r)
        \/ PredictModel(r)
        \/ Respond(r)

SpecPipeline == InitPipeline /\ [][NextPipeline]_vars

\* create_rolling_features on every column of at most MaxSeriesLen rows
\* and every window of at most MaxWindow, and on an absent column.
InitRolling ==
    /\ call = NoCall
    /\ SimIdle
    /\ AggIdle
    /\ \/ \E n \in 0 .. MaxSeriesLen, window \in 1 .. MaxWindow :
            \E src \in [1 .. n -> SeriesVals] : RollEntered(TRUE, src, window)
       \/ \E window \in 1 .. MaxWindow : RollEntered(FALSE, <<>>, window)
    /\ PredictorConstructed
    /\ ReqIdle
    /\ RunIdle

NextRolling ==
    \/ RollColumn
    \/ RollStep
    \/ RollFinish

SpecRolling == InitRolling /\ [][NextRolling]_vars

\* MaxRuns requests of POST /api/run-optimization, one after the other, on
\* every file of Inputs.
InitRun ==
    /\ call = NoCall
    /\ SimIdle
    /\ AggIdle
    /\ RollIdle
    /\ PredictorConstructed
    /\ ReqIdle
    /\ RunIdle

NextRun ==
    \/ RunBegin
    \/ RunLoad
    \/ RunTimeFeatures
    \/ RunRollingFeatures
    \/ RunTrain
    \/ RunPredict
    \/ RunGpuPredictions
    \/ RunSimulate
    \/ RunSucceed
    \/ RunHandle

SpecRun == InitRun /\ [][NextRun]_vars

-----------------------------------------------------------------------------
(* Properties of allocate_resources (SpecAlloc)                            *)

Returned == call.action # "none"

\* C1: SCALE_UP is returned exactly when predicted_usage is strictly above
\* scale_up_threshold, whatever the thresholds; no other current_usage
\* changes whether SCALE_UP is returned.
C1_ScaleUpIffPredictedAbove ==
    Returned =>
        /\ (call.action = "SCALE_UP") <=> (call.predicted_usage > call.scale_up_threshold)
        /\ \A other \in UsageGrid :
              (allocate_resources(other, call.predicted_usage,
                                  call.scale_up_threshold,
                                  call.scale_down_threshold) = "SCALE_UP")
              <=> (call.action = "SCALE_UP")

\* SCALE_UP returned on overridden thresholds while the current usage is
\* below the scale-down threshold.
C1_Witness ==
    /\ call.action = "SCALE_UP"
    /\ call.scale_up_threshold # DEFAULT_SCALE_UP_THRESHOLD
    /\ call.current_usage < call.scale_down_threshold

BothBelowScaleDown ==
    /\ call.predicted_usage < call.scale_down_threshold
    /\ call.current_usage < call.scale_down_threshold

\* C2 as stated: SCALE_DOWN is returned exactly when predicted and current
\* usage are both below scale_down_threshold, for every pair of thresholds,
\* and MAINTAIN in every other case that is not SCALE_UP.
C2_Original ==
    Returned =>
        /\ (call.action = "SCALE_DOWN") <=> BothBelowScaleDown
        /\ (call.action = "SCALE_DOWN") => call.current_usage < call.scale_down_threshold
        /\ call.action \in {"SCALE_UP", "SCALE_DOWN", "MAINTAIN"}

\* C2 as amended: SCALE_DOWN is returned exactly when predicted_usage is
\* not above scale_up_threshold and predicted and current usage are both
\* below scale_down_threshold; never while current_usage is at or above
\* scale_down_threshold; MAINTAIN exactly when neither SCALE_UP nor
\* SCALE_DOWN applies.
C2_ScaleDownUnlessScaleUp ==
    Returned =>
        /\ (call.action = "SCALE_DOWN")
              <=> (~(call.predicted_usage > call.scale_up_threshold) /\ BothBelowScaleDown)
        /\ (call.action = "SCALE_DOWN") => call.current_usage < call.scale_down_threshold
        /\ (call.action = "MAINTAIN")
              <=> (~(call.predicted_usage > call.scale_up_threshold) /\ ~BothBelowScaleDown)
        /\ call.action \in {"SCALE_UP", "SCALE_DOWN", "MAINTAIN"}

\* SCALE_DOWN returned with scale_down_threshold above scale_up_threshold.
C2_Witness ==
    /\ call.action = "SCALE_DOWN"
    /\ call.scale_down_threshold > call.scale_up_threshold

-----------------------------------------------------------------------------
(* Properties of run_simulation (SpecSim, SpecScenarioA)                   *)

RECURSIVE SumField(_, _)
SumField(s, f) == IF s = <<>> THEN 0 ELSE s[1][f] + SumField(Tail(s), f)

SumCostSaved == SumField(intervals, "original_cost") - SumField(intervals, "optimized_cost")
SumEnergySaved == SumField(intervals, "original_power") - SumField(intervals, "optimized_power")

\* C5: after every processed interval the running totals are the exact
\* sums of the per-interval values, so their difference is the sum of the
\* per-interval cost savings; the summary rounds these sums once, and
\* total_intervals is the number of rows of the input.  The same for the
\* summary run_optimization builds from its results table.
C5_TotalsAreExactSums ==
    /\ Len(intervals) = i
    /\ total_original_cost = SumField(intervals, "original_cost")
    /\ total_optimized_cost = SumField(intervals, "optimized_cost")
    /\ total_original_cost - total_optimized_cost = SumCostSaved
    /\ total_original_kwh - total_optimized_kwh = SumEnergySaved
    /\ sim_pc = "done" =>
          /\ summary.total_intervals = Len(df_metrics)
          /\ Len(intervals) = Len(df_metrics)
          /\ summary.original_cost = RoundCost(SumField(intervals, "original_cost"))
          /\ summary.optimized_cost = RoundCost(SumField(intervals, "optimized_cost"))
          /\ summary.cost_savings = RoundCost(SumCostSaved)
          /\ summary.energy_saved_kwh = RoundKwh(SumEnergySaved)
    /\ agg_pc = "success" =>
          /\ response_data.total_intervals = Len(results_df)
          /\ response_data.original_cost = RoundCost(SumField(results_df, "original_cost"))
          /\ response_data.optimized_cost = RoundCost(SumField(results_df, "optimized_cost"))
          /\ response_data.cost_savings = RoundCost(SumField(results_df, "cost_saved"))
          /\ response_data.energy_saved_kwh = RoundKwh(SumField(results_df, "energy_saved_kwh"))

\* A finished run of several intervals, one of them scaled down, whose
\* saved cost is not a whole number of hundredths.
C5_Witness ==
    /\ sim_pc = "done"
    /\ Len(intervals) >= 2
    /\ \E k \in 1 .. Len(intervals) : intervals[k].action = "SCALE_DOWN"
    /\ (total_original_cost - total_optimized_cost) % 10 # 0

\* p (in 1/100 percent) is 0 for a zero original total, and otherwise the
\* hundredth nearest to 100 x saved / original.
PercentOf(p, saved, original) ==
    IF original = 0 THEN p = 0
    ELSE /\ 2 * (p * original - 10000 * saved) <= original
         /\ 2 * (10000 * saved - p * original) <= original

\* C6: no run ends in a division by zero; the summary's
\* cost_savings_percent is 0 when the total original cost is 0 (a table of
\* zero rows included), and otherwise 100 x cost saved / total original
\* cost, to the nearest hundredth as the summary reports it.
C6_PercentZeroWhenNoCost ==
    /\ sim_pc # "ZeroDivisionError"
    /\ sim_pc = "done" =>
          PercentOf(summary.cost_savings_percent,
                    total_original_cost - total_optimized_cost, total_original_cost)
    /\ agg_pc # "ZeroDivisionError"
    /\ agg_pc = "success" =>
          PercentOf(response_data.cost_savings_percent,
                    SumField(results_df, "cost_saved"),
                    SumField(results_df, "original_cost"))

\* A finished run on a table of zero rows.
C6_Witness ==
    /\ sim_pc = "done"
    /\ Len(df_metrics) = 0
    /\ total_original_cost = 0
    /\ summary.cost_savings_percent = 0

\* usage / 100 x cost rate, summed over the two resources, times 100.
UsageCostTimes100(cpu, gpu) == cpu * COST_CPU_PER_HOUR + gpu * COST_GPU_PER_HOUR

\* C7: every interval's optimized cost is the usage-proportional cost of an
\* optimized usage: a scale-down target on SCALE_DOWN, a scale-up target on
\* SCALE_UP, the observed usage on MAINTAIN.  Stated for some pair of
\* targets, the gpu usage either following the cpu action or unchanged.
C7_OptimizedCostFromOptimizedUsage ==
    \E down_target \in 0 .. 100, up_target \in 0 .. 100, gpu_follows \in BOOLEAN :
      \A k \in 1 .. Len(intervals) :
        LET r == intervals[k]
            t == IF r.action = "SCALE_DOWN" THEN down_target ELSE up_target
            cpu == IF r.action = "MAINTAIN" THEN r.cpu_usage ELSE t
            gpu == IF r.action = "MAINTAIN" \/ ~gpu_follows THEN r.gpu_usage ELSE t
        IN  r.optimized_cost * 100 = UsageCostTimes100(cpu, gpu)

\* C8: every interval's original cost is the sum over the resources of
\* observed usage / 100 x the resource's cost rate.
C8_OriginalCostFromUsage ==
    \A k \in 1 .. Len(intervals) :
        intervals[k].original_cost * 100
            = UsageCostTimes100(intervals[k].cpu_usage, intervals[k].gpu_usage)

\* C9: every interval's energy saved is the sum over the resources of
\* max(0, observed usage - optimized usage) x the resource's energy factor,
\* the optimized usage as in C7 (a scale-down target on SCALE_DOWN), and so
\* is never negative.  Stated for some target, the gpu usage either
\* following the cpu action or unchanged.
C9_EnergySavedCountsReductions ==
    \E down_target \in 0 .. 100, gpu_follows \in BOOLEAN :
      \A k \in 1 .. Len(intervals) :
        LET r == intervals[k]
            saved == r.original_power - r.optimized_power
            Reduction(observed) == IF observed > down_target
                                   THEN observed - down_target ELSE 0
            cpu_cut == IF r.action = "SCALE_DOWN" THEN Reduction(r.cpu_usage) ELSE 0
            gpu_cut == IF r.action = "SCALE_DOWN" /\ gpu_follows
                       THEN Reduction(r.gpu_usage) ELSE 0
        IN  /\ saved >= 0
            /\ saved = cpu_cut * POWER_CPU_WATT_PER_PERCENT
                         + gpu_cut * POWER_GPU_WATT_PER_PERCENT

ActionsSoFar == [k \in 1 .. Len(intervals) |-> intervals[k].action]

\* C10 as stated: on scenario A the simulator obtains the actions
\* MAINTAIN, MAINTAIN, MAINTAIN, MAINTAIN, SCALE_UP, MAINTAIN.
C10_Original ==
    sim_pc = "done" =>
        ActionsSoFar = <<"MAINTAIN", "MAINTAIN", "MAINTAIN", "MAINTAIN",
                         "SCALE_UP", "MAINTAIN">>

ScenarioAActions == <<"SCALE_DOWN", "SCALE_DOWN", "SCALE_DOWN", "MAINTAIN",
                      "SCALE_UP", "SCALE_DOWN">>

\* C10 as amended: on scenario A the simulator obtains the actions
\* SCALE_DOWN, SCALE_DOWN, SCALE_DOWN, MAINTAIN, SCALE_UP, SCALE_DOWN: at
\* 25, 22 and 28 prediction and current usage are both below 30.
C10_ScenarioAActions ==
    /\ \A k \in 1 .. Len(intervals) : intervals[k].action = ScenarioAActions[k]
    /\ sim_pc = "done" => ActionsSoFar = ScenarioAActions

\* Scenario A simulated to the end.
C10_Witness ==
    /\ sim_pc = "done"
    /\ Len(intervals) = Len(ScenarioA)
    /\ \A k \in 1 .. Len(ScenarioA) :
          intervals[k].cpu_usage = ScenarioA[k] /\ intervals[k].pred_cpu = ScenarioA[k]

-----------------------------------------------------------------------------
(* Properties of UsagePredictor (SpecPredictor)                            *)

-----------------------------------------------------------------------------
(* Properties of the pipeline on the shared CPU_MODEL (SpecPipeline)       *)

\* C4: no request's predict reads the estimator while another request's
\* train is refitting it.
C4_PredictNeverSeesRefit ==
    \A r \in Requests : req[r].obs # "refitting"

-----------------------------------------------------------------------------
(* Properties of create_rolling_features (SpecRolling)                     *)

Min(a, b) == IF a < b THEN a ELSE b

RECURSIVE SumRange(_, _, _)
\* s[lo] + ... + s[hi].
SumRange(s, lo, hi) == IF lo > hi THEN 0 ELSE s[lo] + SumRange(s, lo + 1, hi)

\* C11: the feature at row j (1-based) is defined and is the arithmetic
\* mean of the last min(W, j) values of the source column ending at j;
\* with W = 1 it is the source value; a created column has a cell for
\* every row.
C11_RollingMeanOfLastValues ==
    /\ \A j \in 1 .. Len(roll.out) :
          LET cell == roll.out[j]
              n == Min(roll.window, j)
          IN  /\ cell.defined
              /\ cell.den = n
              /\ cell.num = SumRange(roll.src, j - n + 1, j)
              /\ roll.window = 1 => cell.num = roll.src[j] * cell.den
    /\ roll.pc = "created" => Len(roll.out) = Len(roll.src)

\* A created feature column whose window has slid past rows of different
\* values.
C11_Witness ==
    /\ roll.pc = "created"
    /\ roll.window >= 2
    /\ Len(roll.src) > roll.window
    /\ roll.src[1] # roll.src[Len(roll.src)]
    /\ roll.out[Len(roll.out)].num # roll.out[1].num * roll.out[Len(roll.out)].den

-----------------------------------------------------------------------------
(* Properties of UsagePredictor as a set of per-resource models            *)
(* (SpecPredictor)                                                         *)

\* C12: the fitted models are kept per resource: for every resource whose
\* train has completed, the estimator predict reads is still the one that
\* resource's last completed train fitted, whatever trains for other
\* resources came after.
C12_ModelsKeyedByResource ==
    \A r \in Targets :
        history.own[r] # Unfitted => model = history.own[r]

\* C14: a train call that failed leaves the predictor as it found it: the
\* same feature list, target and estimator, so that every predict ends as
\* it would have ended before the call.
C14_FailedTrainChangesNothing ==
    (last.op = "train" /\ last.result # "ok") =>
        /\ features = history.prev.features
        /\ target = history.prev.target
        /\ model = history.prev.model
        /\ \A df \in Frames :
              PredictResult(df, features, model)
                  = PredictResult(df, history.prev.features, history.prev.model)

-----------------------------------------------------------------------------
(* Properties of one request through the pipeline (SpecRun)                *)

\* A file the pipeline can serve: it is there, its timestamp column holds
\* dates, it has both usage columns and enough rows to split.
InputValid(input) ==
    /\ input.found
    /\ input.timestamp = "datetime"
    /\ input.usage = RollingColumns
    /\ TrainRows(input.rows) > 0

\* C13: the stages run in program order; once a stage has raised, it is
\* the last stage that ran and the request ends in an error response with
\* a message and no summary; an absent file is answered 404 'not found';
\* a run that skipped a usage column, or whose file is not valid, never
\* ends in success; a success response means every stage ran and none
\* raised.
C13_FailureEndsInError ==
    /\ run.stages = SubSeq(AllStages, 1, Len(run.stages))
    /\ run.exc # NoExc =>
          /\ run.pc \in {"except", "responded"}
          /\ run.stages # <<>>
          /\ run.stages[Len(run.stages)] = run.exc.at
    /\ run.pc = "responded" =>
          /\ run.exc # NoExc =>
                /\ run.response.status = "error"
                /\ run.response.message # ""
                /\ ~run.response.data
          /\ ~run.input.found =>
                /\ run.response.code = 404
                /\ run.response.message = NotFoundMessage
          /\ run.skipped # {} => run.response.status = "error"
          /\ ~InputValid(run.input) => run.response.status = "error"
          /\ run.response.status = "success" =>
                /\ run.exc = NoExc
                /\ run.stages = AllStages

\* A request on a file without cpu_usage: the column was skipped with a
\* warning, train raised, the response is the error.
C13_Witness ==
    /\ run.pc = "responded"
    /\ "cpu_usage" \in run.skipped
    /\ run.exc.at = "train"
    /\ run.response.status = "error"
    /\ run.response.code = 500

=============================================================================
